---- MODULE Spec2Model ----
(***************************************************************************)
(* The board state manager of src/src/App.tsx: the React component App,    *)
(* its state (board, showModal, modalTask, deleting), the localStorage     *)
(* snapshot it keeps under "trello-board", and its handlers.  Each handler *)
(* is one action; the setBoard updater it passes is an operator on the     *)
(* previous board, and the re-render and the persistence effect that       *)
(* follow a state change are part of the same action.                      *)
(***************************************************************************)
EXTENDS Integers, Sequences, FiniteSets, TLC

VARIABLES board, showModal, modalTask, deleting, storage, crashed, last

vars == <<board, showModal, modalTask, deleting, storage, crashed, last>>

-----------------------------------------------------------------------------
(* Bounds of the model *)

\* with texts of maxLength characters typed, a create that would grow the
\* board beyond MaxTypedRefs taskIds entries is not taken
MaxTypedRefs == 1
\* Date.now() takes the readings 1..MaxClock
MaxClock == 2
\* a create that would grow the board beyond MaxRefs taskIds entries is not taken
MaxRefs == 2
\* the boards that the specifications of a single handler start from hold at
\* most MaxTasks tasks
MaxTasks == 3

-----------------------------------------------------------------------------
(* Values *)

\* JavaScript's null (useState(null), destination of a drop outside any column)
Null == [null |-> TRUE]

\* the ids of DEFAULT_COLUMNS, in order (title, color and accent are constant
\* presentation data that no handler reads or writes)
DEFAULT_COLUMNS == <<"todo", "inprogress", "done">>

ColumnIds == {DEFAULT_COLUMNS[i] : i \in 1..Len(DEFAULT_COLUMNS)}

\* strings are sequences of characters; the values the textarea can hold
Contents == {<<>>, <<" ">>, <<"a">>, <<" ", "b">>}

\* the textarea's maxLength attribute
maxLength == 300

\* a text one character longer than the textarea holds
LongText == [i \in 1..(maxLength + 1) |-> "x"]

\* what the user types or pastes into the textarea
Typed == Contents \cup {LongText}

\* a textarea that takes whatever is typed
TextareaWithoutMaxLength(typed) == typed

\* the value of the textarea after the user's input: input beyond maxLength
\* characters is not taken
Textarea(typed) ==
    IF Len(typed) > maxLength THEN SubSeq(typed, 1, maxLength) ELSE typed

IsWhitespace(ch) == ch = " "

RECURSIVE TrimStart(_)
TrimStart(s) ==
    IF s # <<>> /\ IsWhitespace(Head(s)) THEN TrimStart(Tail(s)) ELSE s

RECURSIVE TrimEnd(_)
TrimEnd(s) ==
    IF s # <<>> /\ IsWhitespace(s[Len(s)])
    THEN TrimEnd(SubSeq(s, 1, Len(s) - 1))
    ELSE s

\* a trim that removes nothing
TrimNothing(s) == s

\* String.prototype.trim
Trim(s) == TrimEnd(TrimStart(s))

\* "task-" + Date.now()
TaskId(t) == "task-" \o ToString(t)

\* Array.prototype.splice(index, 1) on a copy: index is 0-based; an index at or
\* beyond the length removes nothing
SpliceRemove(s, index) ==
    IF index < Len(s)
    THEN SubSeq(s, 1, index) \o SubSeq(s, index + 2, Len(s))
    ELSE s

\* a splice that inserts nothing at an index beyond the length
SpliceInsertUnclamped(s, index, item) ==
    IF index > Len(s)
    THEN s
    ELSE SubSeq(s, 1, index) \o <<item>> \o SubSeq(s, index + 1, Len(s))

\* Array.prototype.splice(index, 0, item) on a copy: an index beyond the
\* length is clamped to the length
SpliceInsert(s, index, item) ==
    LET at == IF index > Len(s) THEN Len(s) ELSE index
    IN SubSeq(s, 1, at) \o <<item>> \o SubSeq(s, at + 1, Len(s))

\* a filter with the test the other way round: (id) => id === taskId
RECURSIVE FilterKeepOnly(_, _)
FilterKeepOnly(s, taskId) ==
    IF s = <<>> THEN <<>>
    ELSE IF Head(s) = taskId
    THEN <<Head(s)>> \o FilterKeepOnly(Tail(s), taskId)
    ELSE FilterKeepOnly(Tail(s), taskId)

\* Array.prototype.filter((id) => id !== taskId)
RECURSIVE FilterOut(_, _)
FilterOut(s, taskId) ==
    IF s = <<>> THEN <<>>
    ELSE IF Head(s) = taskId THEN FilterOut(Tail(s), taskId)
    ELSE <<Head(s)>> \o FilterOut(Tail(s), taskId)

\* { ...record, [key]: value } on a Record<string, _>
Put(record, key, value) ==
    [k \in DOMAIN record \cup {key} |-> IF k = key THEN value ELSE record[k]]

\* a copy of a Record<string, _> with `delete copy[key]` applied
Remove(record, key) == [k \in DOMAIN record \ {key} |-> record[k]]

-----------------------------------------------------------------------------
(* The board *)

\* {} as a Record<string, Task>
EmptyRecord == [k \in {} |-> Null]

\* the default empty board of getInitialData
DefaultBoard ==
    [tasks |-> EmptyRecord,
     columns |-> [c \in ColumnIds |-> [id |-> c, taskIds |-> <<>>]],
     columnOrder |-> DEFAULT_COLUMNS]

\* JSON.stringify of an object: the set of its <<key, value>> members
StringifyObject(record) == {<<k, record[k]>> : k \in DOMAIN record}

\* JSON.parse of an object
ParseObject(json) ==
    [k \in {m[1] : m \in json} |-> (CHOOSE m \in json : m[1] = k)[2]]

\* JSON.stringify(board): the objects of the board, of tasks, of columns, and
\* each task and each column, are sets of members; an array is a sequence and
\* a string is itself; text is the string that localStorage holds
Stringify(b) ==
    [text |->
        StringifyObject(
            [tasks |-> StringifyObject(
                           [k \in DOMAIN b.tasks |->
                               StringifyObject(b.tasks[k])]),
             columns |-> StringifyObject(
                           [c \in DOMAIN b.columns |->
                               StringifyObject(b.columns[c])]),
             columnOrder |-> b.columnOrder])]

\* JSON.parse(saved)
Parse(json) ==
    LET parsed == ParseObject(json.text)
        tasks == ParseObject(parsed.tasks)
        columns == ParseObject(parsed.columns)
    IN [tasks |-> [k \in DOMAIN tasks |-> ParseObject(tasks[k])],
        columns |-> [c \in DOMAIN columns |-> ParseObject(columns[c])],
        columnOrder |-> parsed.columnOrder]

getInitialData(saved) == IF saved # Null THEN Parse(saved) ELSE DefaultBoard

\* the render of App reads task.id of board.tasks[taskId] for every taskId of
\* every column: it throws when a column holds an id that tasks does not
Renders(b) ==
    \A c \in DOMAIN b.columns :
        \A i \in 1..Len(b.columns[c].taskIds) :
            b.columns[c].taskIds[i] \in DOMAIN b.tasks

TotalRefs(b) ==
    LET RECURSIVE Sum(_)
        Sum(S) == IF S = {} THEN 0
                  ELSE LET c == CHOOSE x \in S : TRUE
                       IN Len(b.columns[c].taskIds) + Sum(S \ {c})
    IN Sum(DOMAIN b.columns)

-----------------------------------------------------------------------------
(* The setBoard updaters *)

\* an edit that stores { content } without the spread of the task it replaces
EditUpdaterWithoutSpread(prev, id, content) ==
    [prev EXCEPT !.tasks = Put(prev.tasks, id, [content |-> content])]

\* handleModalSave, Edit: { ...prev.tasks[id], content } (the spread of an
\* absent entry contributes no field)
EditUpdater(prev, id, content) ==
    [prev EXCEPT !.tasks =
        Put(prev.tasks, id,
            IF id \in DOMAIN prev.tasks
            THEN [prev.tasks[id] EXCEPT !.content = content]
            ELSE [content |-> content])]

\* handleModalSave, New
CreateUpdater(prev, id, content, columnId) ==
    [prev EXCEPT
        !.tasks = Put(prev.tasks, id, [id |-> id, content |-> content]),
        !.columns[columnId].taskIds = <<id>> \o prev.columns[columnId].taskIds]

\* confirmDelete
DeleteUpdater(prev, taskId, columnId) ==
    [prev EXCEPT
        !.tasks = Remove(prev.tasks, taskId),
        !.columns[columnId].taskIds =
            FilterOut(prev.columns[columnId].taskIds, taskId)]

\* a move within a column that inserts at the destination index before it
\* removes the element at the source index
MoveWithinInsertFirst(prev, draggableId, source, destination) ==
    [prev EXCEPT !.columns[source.droppableId].taskIds =
        SpliceRemove(SpliceInsert(@, destination.index, draggableId),
                     source.index)]

\* onDragEnd, start === finish
MoveWithin(prev, draggableId, source, destination) ==
    [prev EXCEPT !.columns[source.droppableId].taskIds =
        SpliceInsert(SpliceRemove(@, source.index),
                     destination.index, draggableId)]

\* a move to another column that leaves the source column as it is
MoveAcrossKeepSource(prev, draggableId, source, destination) ==
    [prev EXCEPT
        !.columns[destination.droppableId].taskIds =
            SpliceInsert(@, destination.index, draggableId)]

\* onDragEnd, moving to another column
MoveAcross(prev, draggableId, source, destination) ==
    [prev EXCEPT
        !.columns[source.droppableId].taskIds = SpliceRemove(@, source.index),
        !.columns[destination.droppableId].taskIds =
            SpliceInsert(@, destination.index, draggableId)]

\* the two column objects are the same object exactly when the ids are equal
DragUpdater(prev, draggableId, source, destination) ==
    IF source.droppableId = destination.droppableId
    THEN MoveWithin(prev, draggableId, source, destination)
    ELSE MoveAcross(prev, draggableId, source, destination)

-----------------------------------------------------------------------------
(* State *)

Init ==
    /\ board = getInitialData(Null)
    /\ showModal = FALSE
    /\ modalTask = Null
    /\ deleting = Null
    /\ storage = Stringify(getInitialData(Null))
    /\ crashed = FALSE
    /\ last = [op |-> "mount", pre |-> getInitialData(Null),
               stored |-> Null]

\* a setBoard that is followed by the render but by no persistence effect
CommitWithoutEffect(next) ==
    /\ board' = next
    /\ crashed' = ~Renders(next)
    /\ storage' = storage

\* what follows setBoard(next): the render, which unmounts the component when it
\* throws, and after a render that succeeds the effect that persists the board
Commit(next) ==
    /\ board' = next
    /\ crashed' = ~Renders(next)
    /\ storage' = IF Renders(next) THEN Stringify(next) ELSE storage

\* the (task, column) pairs the render draws Edit and Delete buttons for
Rendered(b) ==
    UNION {{<<b.columns[c].taskIds[i], c>> :
                i \in 1..Len(b.columns[c].taskIds)} :
           c \in {b.columnOrder[j] : j \in 1..Len(b.columnOrder)}}

-----------------------------------------------------------------------------
(* Handlers.  last is a history variable: the handler that ran last, the   *)
(* board it found and the arguments it was given.                          *)

\* the history of a handler: its name, the board and the snapshot it found
Ran(op, args) == [op |-> op, pre |-> board, stored |-> storage] @@ args

openNewTaskModal(columnId) ==
    /\ ~crashed
    /\ modalTask' = [content |-> <<>>, columnId |-> columnId]
    /\ showModal' = TRUE
    /\ last' = Ran("openNewTaskModal", EmptyRecord)
    /\ UNCHANGED <<board, deleting, storage, crashed>>

openEditTaskModal(taskId, columnId) ==
    /\ ~crashed
    /\ modalTask' = [id |-> taskId, content |-> board.tasks[taskId].content,
                     columnId |-> columnId]
    /\ showModal' = TRUE
    /\ last' = Ran("openEditTaskModal", EmptyRecord)
    /\ UNCHANGED <<board, deleting, storage, crashed>>

\* a Cancel that stores what was typed for the task being edited
closeModalThatSaves ==
    /\ ~crashed
    /\ showModal /\ modalTask # Null
    /\ IF "id" \in DOMAIN modalTask /\ modalTask.id \in DOMAIN board.tasks
       THEN /\ board' = EditUpdater(board, modalTask.id, modalTask.content)
            /\ storage' = Stringify(board')
       ELSE UNCHANGED <<board, storage>>
    /\ showModal' = FALSE
    /\ modalTask' = Null
    /\ last' = Ran("closeModal", EmptyRecord)
    /\ UNCHANGED <<deleting, crashed>>

closeModal ==
    /\ ~crashed
    /\ showModal /\ modalTask # Null
    /\ showModal' = FALSE
    /\ modalTask' = Null
    /\ last' = Ran("closeModal", EmptyRecord)
    /\ UNCHANGED <<board, deleting, storage, crashed>>

\* the textarea's onChange
onChange(value) ==
    /\ ~crashed
    /\ showModal /\ modalTask # Null
    /\ modalTask' = [modalTask EXCEPT !.content = value]
    /\ last' = Ran("onChange", EmptyRecord)
    /\ UNCHANGED <<board, showModal, deleting, storage, crashed>>

\* the Save button is drawn while showModal && modalTask
handleModalSave ==
    /\ ~crashed
    /\ showModal /\ modalTask # Null
    /\ IF Trim(modalTask.content) = <<>>
       THEN /\ last' = Ran("handleModalSave",
                            [modalTask |-> modalTask, branch |-> "return"])
            /\ UNCHANGED <<board, showModal, modalTask, storage, crashed>>
       ELSE /\ IF "id" \in DOMAIN modalTask
               THEN /\ Commit(EditUpdater(board, modalTask.id,
                                          modalTask.content))
                    /\ last' = Ran("handleModalSave",
                                   [modalTask |-> modalTask,
                                    branch |-> "Edit"])
               ELSE /\ \E t \in 1..MaxClock :
                         /\ Commit(CreateUpdater(board, TaskId(t),
                                                 modalTask.content,
                                                 modalTask.columnId))
                         /\ last' = Ran("handleModalSave",
                                        [modalTask |-> modalTask,
                                         branch |-> "New", now |-> t,
                                         id |-> TaskId(t)])
            /\ showModal' = FALSE
            /\ modalTask' = Null
    /\ UNCHANGED deleting

handleDeleteTask(taskId, columnId) ==
    /\ ~crashed
    /\ deleting' = [taskId |-> taskId, columnId |-> columnId]
    /\ last' = Ran("handleDeleteTask", EmptyRecord)
    /\ UNCHANGED <<board, showModal, modalTask, storage, crashed>>

\* Cancel of the delete confirmation: setDeleting(null)
cancelDelete ==
    /\ ~crashed
    /\ deleting # Null
    /\ deleting' = Null
    /\ last' = Ran("cancelDelete", EmptyRecord)
    /\ UNCHANGED <<board, showModal, modalTask, storage, crashed>>

confirmDelete ==
    /\ ~crashed
    /\ deleting # Null
    /\ Commit(DeleteUpdater(board, deleting.taskId, deleting.columnId))
    /\ deleting' = Null
    /\ last' = Ran("confirmDelete", [deleting |-> deleting])
    /\ UNCHANGED <<showModal, modalTask>>

\* an onDragEnd that returns early only when there is no destination
onDragEndWithoutSamePlaceReturn(draggableId, source, destination) ==
    /\ ~crashed
    /\ last' = [op |-> "onDragEnd", pre |-> board, stored |-> storage,
                draggableId |-> draggableId, source |-> source,
                destination |-> destination]
    /\ IF destination = Null
       THEN UNCHANGED <<board, storage, crashed>>
       ELSE /\ board' = DragUpdater(board, draggableId, source, destination)
            /\ crashed' = ~Renders(board')
            /\ storage' = IF Renders(board') THEN Stringify(board')
                          ELSE storage
    /\ UNCHANGED <<showModal, modalTask, deleting>>

onDragEnd(draggableId, source, destination) ==
    /\ ~crashed
    /\ last' = Ran("onDragEnd",
                   [draggableId |-> draggableId, source |-> source,
                    destination |-> destination])
    /\ IF destination = Null
       THEN UNCHANGED <<board, storage, crashed>>
       ELSE IF /\ destination.droppableId = source.droppableId
               /\ destination.index = source.index
       THEN UNCHANGED <<board, storage, crashed>>
       ELSE Commit(DragUpdater(board, draggableId, source, destination))
    /\ UNCHANGED <<showModal, modalTask, deleting>>

\* the page is loaded again: useState(getInitialData), the first render and
\* the first run of the persistence effect
Reload ==
    /\ board' = getInitialData(storage)
    /\ showModal' = FALSE
    /\ modalTask' = Null
    /\ deleting' = Null
    /\ crashed' = ~Renders(getInitialData(storage))
    /\ storage' = IF Renders(getInitialData(storage))
                  THEN Stringify(getInitialData(storage))
                  ELSE storage
    /\ last' = [op |-> "mount", pre |-> getInitialData(storage),
                stored |-> storage]

-----------------------------------------------------------------------------
(* The drag reports *)

Location(columnId, index) == [droppableId |-> columnId, index |-> index]

\* the places a task dragged out of column c of a board drawn as b can be
\* dropped at, or none
DrawnDestinations(b, c) ==
    {Null} \cup
    UNION {{Location(d, j) :
               j \in 0..(Len(b.columns[d].taskIds) - (IF d = c THEN 1 ELSE 0))} :
           d \in ColumnIds}

\* the reports the drag library makes while the board it has drawn is the
\* current one: a drawn task, the place it is drawn at and a destination
DrawnReports(b) ==
    UNION {UNION {{<<b.columns[c].taskIds[i + 1], Location(c, i), dest>> :
                      dest \in DrawnDestinations(b, c)} :
                  i \in 0..(Len(b.columns[c].taskIds) - 1)} :
           c \in ColumnIds}

\* every report about a task of the board, whatever place it names: the
\* source index up to one beyond the column, the destination index up to two
\* beyond
AnyReports(b) ==
    LET sources ==
            UNION {{Location(c, i) : i \in 0..Len(b.columns[c].taskIds)} :
                   c \in ColumnIds}
        destinations ==
            {Null} \cup
            UNION {{Location(d, j) : j \in 0..(Len(b.columns[d].taskIds) + 1)} :
                   d \in ColumnIds}
    IN (DOMAIN b.tasks) \X sources \X destinations

-----------------------------------------------------------------------------
(* The application: every handler, from the first load on *)

\* the model stops creating tasks at MaxRefs taskIds entries
BoardHasRoom ==
    (modalTask # Null /\ "id" \notin DOMAIN modalTask)
        => TotalRefs(board) < MaxRefs

Next ==
    \/ \E columnId \in ColumnIds : openNewTaskModal(columnId)
    \/ \E r \in Rendered(board) : openEditTaskModal(r[1], r[2])
    \/ closeModal
    \/ \E typed \in Contents : onChange(Textarea(typed))
    \/ BoardHasRoom /\ handleModalSave
    \/ \E r \in Rendered(board) : handleDeleteTask(r[1], r[2])
    \/ cancelDelete
    \/ confirmDelete
    \/ \E r \in DrawnReports(board) : onDragEnd(r[1], r[2], r[3])
    \/ Reload

Spec == Init /\ [][Next]_vars

-----------------------------------------------------------------------------
(* The application with texts up to and beyond maxLength typed *)

TypedBoardHasRoom ==
    (modalTask # Null /\ "id" \notin DOMAIN modalTask)
        => TotalRefs(board) < MaxTypedRefs

NextTyping ==
    \/ \E columnId \in ColumnIds : openNewTaskModal(columnId)
    \/ \E r \in Rendered(board) : openEditTaskModal(r[1], r[2])
    \/ closeModal
    \/ \E typed \in Typed : onChange(Textarea(typed))
    \/ TypedBoardHasRoom /\ handleModalSave
    \/ \E r \in Rendered(board) : handleDeleteTask(r[1], r[2])
    \/ cancelDelete
    \/ confirmDelete
    \/ \E r \in DrawnReports(board) : onDragEnd(r[1], r[2], r[3])
    \/ Reload

SpecTyping == Init /\ [][NextTyping]_vars

-----------------------------------------------------------------------------
(* One handler applied to a board drawn from the boards of at most MaxTasks *)
(* tasks that creates and moves build                                       *)

TaskIds == {TaskId(t) : t \in 1..MaxTasks}

\* the content the drawn boards give a task
ContentOf(id) == IF id = TaskId(1) THEN <<"a">> ELSE <<" ", "b">>

\* the sequences of distinct task ids
IdSeqs ==
    {s \in UNION {[1..n -> TaskIds] : n \in 0..MaxTasks} :
        \A i, j \in DOMAIN s : i # j => s[i] # s[j]}

Range(s) == {s[i] : i \in DOMAIN s}

MakeBoard(ids) ==
    [tasks |-> [k \in UNION {Range(ids[c]) : c \in ColumnIds} |->
                   [id |-> k, content |-> ContentOf(k)]],
     columns |-> [c \in ColumnIds |-> [id |-> c, taskIds |-> ids[c]]],
     columnOrder |-> DEFAULT_COLUMNS]

Boards ==
    {MakeBoard(ids) : ids \in
        {f \in [ColumnIds -> IdSeqs] :
            \A c, d \in ColumnIds : c # d => Range(f[c]) \cap Range(f[d]) = {}}}

\* the page loaded with the snapshot of b in storage
Loaded(b) ==
    /\ board = getInitialData(Stringify(b))
    /\ showModal = FALSE
    /\ modalTask = Null
    /\ deleting = Null
    /\ storage = Stringify(b)
    /\ crashed = FALSE
    /\ last = [op |-> "mount", pre |-> b, stored |-> Stringify(b)]

InitDrag == \E b \in Boards : Loaded(b)

NextDrag ==
    /\ last.op = "mount"
    /\ \E r \in AnyReports(board) : onDragEnd(r[1], r[2], r[3])

SpecDrag == InitDrag /\ [][NextDrag]_vars

\* the values of modalTask: a new task for a column, or an edit of a task that
\* was on the board when the modal was opened, with any content typed since
Modals ==
    [content : Contents, columnId : ColumnIds]
    \cup [id : TaskIds, content : Contents, columnId : ColumnIds]

InitSave ==
    \E b \in Boards, m \in Modals :
        /\ board = getInitialData(Stringify(b))
        /\ showModal = TRUE
        /\ modalTask = m
        /\ deleting = Null
        /\ storage = Stringify(b)
        /\ crashed = FALSE
        /\ last = [op |-> "onChange", pre |-> b, stored |-> Stringify(b)]

NextSave == last.op = "onChange" /\ handleModalSave

SpecSave == InitSave /\ [][NextSave]_vars

\* the values of deleting: a confirmation that names any task id, on the
\* board or not, and any column
Deletings == [taskId : TaskIds, columnId : ColumnIds]

InitDelete ==
    \E b \in Boards, d \in Deletings :
        /\ board = getInitialData(Stringify(b))
        /\ showModal = FALSE
        /\ modalTask = Null
        /\ deleting = d
        /\ storage = Stringify(b)
        /\ crashed = FALSE
        /\ last = [op |-> "handleDeleteTask", pre |-> b,
                   stored |-> Stringify(b)]

NextDelete == last.op = "handleDeleteTask" /\ confirmDelete

SpecDelete == InitDelete /\ [][NextDelete]_vars

-----------------------------------------------------------------------------
(* The board invariants of the data model *)

\* the places of the board that hold the id
Places(b, id) ==
    UNION {{<<c, i>> : i \in {j \in DOMAIN b.columns[c].taskIds :
                                 b.columns[c].taskIds[j] = id}} :
           c \in DOMAIN b.columns}

\* (1) every id in every column's taskIds is a key of tasks
Invariant1(b) ==
    \A c \in DOMAIN b.columns : Range(b.columns[c].taskIds) \subseteq DOMAIN b.tasks

\* (2) every key of tasks is in exactly one column's taskIds, exactly once
Invariant2(b) == \A k \in DOMAIN b.tasks : Cardinality(Places(b, k)) = 1

\* (3) columnOrder is a duplicate-free permutation of the keys of columns
Invariant3(b) ==
    /\ Range(b.columnOrder) = DOMAIN b.columns
    /\ Len(b.columnOrder) = Cardinality(DOMAIN b.columns)

BoardInvariants(b) == Invariant1(b) /\ Invariant2(b) /\ Invariant3(b)

-----------------------------------------------------------------------------
(* What the handler that ran last was asked to do *)

Saved(branch) == last.op = "handleModalSave" /\ last.branch = branch

Deleted == last.op = "confirmDelete"

Dragged == last.op = "onDragEnd"

\* the source index is an index of the source column of the board the drag
\* found
SourceInColumn ==
    last.source.index < Len(last.pre.columns[last.source.droppableId].taskIds)

\* the report names the task that is at the source place
Consistent ==
    /\ Dragged
    /\ SourceInColumn
    /\ last.pre.columns[last.source.droppableId].taskIds[last.source.index + 1]
        = last.draggableId

SameColumn ==
    /\ last.destination # Null
    /\ last.destination.droppableId = last.source.droppableId

SamePlace == SameColumn /\ last.destination.index = last.source.index

\* the destination sequence before the insertion: the destination column, less
\* the dragged task when it is the source column too
DestinationLength ==
    Len(last.pre.columns[last.destination.droppableId].taskIds)
        - (IF SameColumn THEN 1 ELSE 0)

\* a report that asks for a move, with an index of the destination sequence
InBounds ==
    /\ last.destination # Null
    /\ ~SamePlace
    /\ last.destination.index <= DestinationLength

OutOfBounds ==
    /\ last.destination # Null
    /\ ~SamePlace
    /\ last.destination.index > DestinationLength

\* a sequence less its element at a 0-based index
Without(s, index) ==
    [k \in 1..(Len(s) - 1) |-> IF k <= index THEN s[k] ELSE s[k + 1]]

\* a sequence with an item put at a 0-based index
With(s, index, item) ==
    [k \in 1..(Len(s) + 1) |->
        IF k <= index THEN s[k] ELSE IF k = index + 1 THEN item ELSE s[k - 1]]

TaskIdsOf(b, c) == b.columns[c].taskIds

\* the content is empty or whitespace only
IsBlank(s) == \A i \in DOMAIN s : s[i] = " "

\* the save of the modal of a new task
SavedNew == last.op = "handleModalSave" /\ "id" \notin DOMAIN last.modalTask

\* a valid create, edit, delete or move
ValidOperation ==
    \/ Saved("New") /\ last.modalTask.columnId \in DOMAIN last.pre.columns
    \/ Saved("Edit") /\ last.modalTask.id \in DOMAIN last.pre.tasks
    \/ Deleted /\ last.deleting.taskId \in DOMAIN last.pre.tasks
    \/ Consistent /\ (last.destination = Null \/ SamePlace \/ InBounds)

-----------------------------------------------------------------------------
(* Claims *)

\* C1: a valid create, edit, delete or move on a board that satisfies the
\* three board invariants leaves a board that satisfies them.
C1_InvariantsPreserved ==
    (ValidOperation /\ BoardInvariants(last.pre)) => BoardInvariants(board)

\* C2: the id a create generates is not already a key of tasks.
C2_CreatedIdIsFresh == Saved("New") => last.id \notin DOMAIN last.pre.tasks

\* C3: confirming the delete of a task that is on a board satisfying the
\* invariants removes the task from tasks, leaves no column holding its id, and
\* shrinks the column that held it by exactly one, in whatever column
\* the task was when the delete was requested.
C3_DeleteRemovesTask ==
    (/\ Deleted
     /\ last.deleting.taskId \in DOMAIN last.pre.tasks
     /\ BoardInvariants(last.pre))
    => /\ last.deleting.taskId \notin DOMAIN board.tasks
       /\ Places(board, last.deleting.taskId) = {}
       /\ \A c \in ColumnIds :
            Len(TaskIdsOf(board, c)) =
                Len(TaskIdsOf(last.pre, c))
                    - Cardinality({p \in Places(last.pre, last.deleting.taskId) :
                                      p[1] = c})

\* C4: a drag report that asks for a move and names a task that is not the one
\* at the source place is rejected: the board is left as it was.
C4_StaleReportRejected ==
    (/\ Dragged
     /\ last.destination # Null
     /\ ~SamePlace
     /\ ~Consistent)
    => board = last.pre

C6_SameColumnMove ==
    (Consistent /\ SameColumn /\ InBounds)
    => LET c == last.source.droppableId
       IN /\ TaskIdsOf(board, c) =
                With(Without(TaskIdsOf(last.pre, c), last.source.index),
                     last.destination.index, last.draggableId)
          /\ \A d \in ColumnIds \ {c} : board.columns[d] = last.pre.columns[d]
          /\ board.tasks = last.pre.tasks
          /\ board.columnOrder = last.pre.columnOrder

\* [a,b,c], move b from 1 to 0, gives [b,a,c]
C6_Witness ==
    /\ Consistent /\ SameColumn /\ InBounds
    /\ TaskIdsOf(last.pre, "todo") = <<TaskId(1), TaskId(2), TaskId(3)>>
    /\ last.draggableId = TaskId(2)
    /\ last.source = Location("todo", 1)
    /\ last.destination = Location("todo", 0)
    /\ TaskIdsOf(board, "todo") = <<TaskId(2), TaskId(1), TaskId(3)>>

\* C7: a consistent move to another column leaves the source column with its
\* sequence less the element at the source index and the destination column
\* with its sequence and the task put at the destination index; the third
\* column and tasks are unchanged.
C7_CrossColumnMove ==
    (Consistent /\ ~SameColumn /\ InBounds)
    => LET src == last.source.droppableId
           dst == last.destination.droppableId
       IN /\ TaskIdsOf(board, src) =
                Without(TaskIdsOf(last.pre, src), last.source.index)
          /\ TaskIdsOf(board, dst) =
                With(TaskIdsOf(last.pre, dst), last.destination.index,
                     last.draggableId)
          /\ \A c \in ColumnIds \ {src, dst} :
                board.columns[c] = last.pre.columns[c]
          /\ board.tasks = last.pre.tasks
          /\ board.columnOrder = last.pre.columnOrder

\* todo=[a,b], done=[c], move a from todo 0 to done 1, gives todo=[b],
\* done=[c,a]
C7_Witness ==
    /\ Consistent /\ ~SameColumn /\ InBounds
    /\ TaskIdsOf(last.pre, "todo") = <<TaskId(1), TaskId(2)>>
    /\ TaskIdsOf(last.pre, "done") = <<TaskId(3)>>
    /\ last.source = Location("todo", 0)
    /\ last.destination = Location("done", 1)
    /\ TaskIdsOf(board, "todo") = <<TaskId(2)>>
    /\ TaskIdsOf(board, "done") = <<TaskId(3), TaskId(1)>>
    /\ TaskIdsOf(board, "inprogress") = <<>>

\* C8: a drag report with no destination, or with the source place as its
\* destination, changes neither the board nor the stored snapshot.
C8_NoOpReport ==
    (Dragged /\ (last.destination = Null \/ SamePlace))
    => /\ board = last.pre
       /\ storage = last.stored

\* a report with the source place as its destination, about another task
\* than the one at that place
C8_Witness ==
    /\ Dragged /\ SamePlace /\ ~Consistent
    /\ SourceInColumn
    /\ board = last.pre

\* C9: a create puts the new id first in the target column, before the
\* column's previous sequence, stores the given content under the new id, and
\* changes no other column and no task that was on the board.
C9_CreatePrepends ==
    Saved("New")
    => LET c == last.modalTask.columnId
       IN /\ TaskIdsOf(board, c) = <<last.id>> \o TaskIdsOf(last.pre, c)
          /\ board.tasks[last.id].content = last.modalTask.content
          /\ \A d \in ColumnIds \ {c} : board.columns[d] = last.pre.columns[d]
          /\ \A k \in DOMAIN last.pre.tasks : board.tasks[k] = last.pre.tasks[k]

\* C10: an edit of a task that is on the board replaces that task's content
\* and nothing else: the task's id, the keys of tasks, every column, columnOrder
\* and every other task are unchanged.
C10_EditReplacesContentOnly ==
    (Saved("Edit") /\ last.modalTask.id \in DOMAIN last.pre.tasks)
    => LET id == last.modalTask.id
       IN /\ DOMAIN board.tasks = DOMAIN last.pre.tasks
          /\ DOMAIN board.tasks[id] = DOMAIN last.pre.tasks[id]
          /\ \A f \in DOMAIN board.tasks[id] \ {"content"} :
                board.tasks[id][f] = last.pre.tasks[id][f]
          /\ board.tasks[id].content = last.modalTask.content
          /\ \A k \in DOMAIN board.tasks \ {id} :
                board.tasks[k] = last.pre.tasks[k]
          /\ board.columns = last.pre.columns
          /\ board.columnOrder = last.pre.columnOrder

C10_Witness ==
    /\ Saved("Edit")
    /\ last.modalTask.id \in DOMAIN last.pre.tasks
    /\ Cardinality(DOMAIN board.tasks) > 1
    /\ board.tasks[last.modalTask.id].content
        # last.pre.tasks[last.modalTask.id].content

\* C11: saving the edit modal for a task id that is not a key of tasks is
\* refused: the board is left as it was and no entry is added to tasks.
C11_EditOfAbsentTaskRejected ==
    (Saved("Edit") /\ last.modalTask.id \notin DOMAIN last.pre.tasks)
    => /\ board = last.pre
       /\ DOMAIN board.tasks = DOMAIN last.pre.tasks

\* the delete confirmation of a page that has not crashed names a task of the
\* board: handleDeleteTask is given a drawn task, and only confirmDelete, which
\* closes the confirmation, takes a task off the board
DeletingNamesTask ==
    (deleting # Null /\ ~crashed) => deleting.taskId \in DOMAIN board.tasks

C13_BlankCreateRefused ==
    /\ (SavedNew /\ IsBlank(last.modalTask.content))
       => /\ board = last.pre
          /\ storage = last.stored
          /\ showModal
          /\ modalTask = last.modalTask
    /\ modalTask # Null => modalTask.columnId \in DOMAIN board.columns
    /\ SavedNew => last.modalTask.columnId \in DOMAIN last.pre.columns

\* a whitespace-only content saved for a board that holds a task
C13_Witness ==
    /\ SavedNew
    /\ last.modalTask.content = <<" ">>
    /\ DOMAIN last.pre.tasks # {}
    /\ board = last.pre

\* C14: once the persistence effect has run after a state transition (the
\* render did not throw), the stored snapshot is the serialisation of the
\* current board, and a startup with that snapshot yields a board equal to the
\* current one in tasks, columns and columnOrder; a startup with no snapshot
\* yields empty tasks and the three columns todo, inprogress, done, in this
\* order, each with empty taskIds.
C14_PersistedAndRehydrated ==
    /\ ~crashed
       => /\ storage = Stringify(board)
          /\ getInitialData(storage).tasks = board.tasks
          /\ getInitialData(storage).columns = board.columns
          /\ getInitialData(storage).columnOrder = board.columnOrder
    /\ (last.op = "mount" /\ last.stored = Null)
       => /\ DOMAIN board.tasks = {}
          /\ board.columnOrder = <<"todo", "inprogress", "done">>
          /\ DOMAIN board.columns = {"todo", "inprogress", "done"}
          /\ \A c \in DOMAIN board.columns :
                board.columns[c].id = c /\ board.columns[c].taskIds = <<>>

\* a startup that found the snapshot of a board of two tasks
C14_Witness ==
    /\ ~crashed
    /\ last.op = "mount"
    /\ last.stored # Null
    /\ Cardinality(DOMAIN board.tasks) = 2
    /\ last.stored = Stringify(board)

\* the handlers that open a dialog, change what is typed in it, or cancel it
CancelOps ==
    {"openNewTaskModal", "openEditTaskModal", "onChange", "closeModal",
     "handleDeleteTask", "cancelDelete"}

\* C15: opening the create or edit modal, changing its content and closing it
\* without saving, and opening and cancelling the delete confirmation, each
\* leave the board and the stored snapshot as the handler found them; closing
\* leaves no modal and cancelling leaves no confirmation.
C15_CancelHasNoEffect ==
    /\ last.op \in CancelOps => (board = last.pre /\ storage = last.stored)
    /\ last.op = "closeModal" => (~showModal /\ modalTask = Null)
    /\ last.op = "cancelDelete" => deleting = Null

\* a modal closed without saving on a board that holds a task
C15_Witness ==
    /\ last.op = "closeModal"
    /\ DOMAIN board.tasks # {}
    /\ board = last.pre
    /\ storage = last.stored
    /\ modalTask = Null

\* C16: in every reachable board every task's content is non-empty after
\* trimming and at most 300 characters long.
C16_ContentNonEmptyAndBounded ==
    \A k \in DOMAIN board.tasks :
        /\ ~IsBlank(board.tasks[k].content)
        /\ Len(board.tasks[k].content) <= 300

\* a task stored with a content of 300 characters, after an input of 301
C16_Witness ==
    /\ last.op = "handleModalSave"
    /\ \E k \in DOMAIN board.tasks :
        /\ k \notin DOMAIN last.pre.tasks
        /\ Len(board.tasks[k].content) = 300

\* C17: in every reachable board each entry of tasks is keyed by its own id
\* (tasks[k].id = k for every key k), and a handler leaves the id of every
\* task it keeps as it was.
C17_TasksKeyedByOwnId ==
    /\ \A k \in DOMAIN board.tasks :
        /\ "id" \in DOMAIN board.tasks[k]
        /\ board.tasks[k].id = k
    /\ \A k \in DOMAIN board.tasks \cap DOMAIN last.pre.tasks :
        "id" \in DOMAIN last.pre.tasks[k]
            => /\ "id" \in DOMAIN board.tasks[k]
               /\ board.tasks[k].id = last.pre.tasks[k].id

====
